---- MODULE Spec2Model ----
(***************************************************************************)
(* The fetch-site relay of website-widget-creator: the serverless handler  *)
(* (api/fetch-site) and the dev-server middleware (vite.config.ts).        *)
(*                                                                         *)
(* Text is modelled as a sequence of tokens.  A token is a short run of    *)
(* characters that the regular expressions and the URL parser of the       *)
(* source treat as a unit; the character classes the source tests (">",    *)
(* quotes, word characters, letter case) are given per token below.        *)
(***************************************************************************)
EXTENDS Integers, Sequences, FiniteSets, TLC

VARIABLES calls

vars == <<calls>>

----------------------------------------------------------------------------
(* Bounds of the model *)

\* number of call slots
MaxCalls == 2
\* most header lines an upstream response carries
MaxHeaders == 2
\* most markup segments an upstream document is made of
MaxSegs == 2

Calls == 1..MaxCalls

----------------------------------------------------------------------------
(* Characters *)

\* String.prototype.toLowerCase, and the /i flag of the regular expressions
Lower(t) ==
    CASE t = "<HEAD" -> "<head"
      [] t = "<A" -> "<a"
      [] t = " HREF=" -> " href="
      [] t = "JavaScript:" -> "javascript:"
      [] t = "MAILTO:" -> "mailto:"
      [] t = "Content-Type" -> "content-type"
      [] t = "Content-Length" -> "content-length"
      [] t = "X-Frame-Options" -> "x-frame-options"
      [] t = "Content-Security-Policy" -> "content-security-policy"
      [] t = "Content-Security-Policy-Report-Only" -> "content-security-policy-report-only"
      [] t = "Cross-Origin-Opener-Policy" -> "cross-origin-opener-policy"
      [] t = "Content-Encoding" -> "content-encoding"
      [] t = "TRANSFER-ENCODING" -> "transfer-encoding"
      [] t = "Access-Control-Allow-Origin" -> "access-control-allow-origin"
      [] t = "X-Custom" -> "x-custom"
      [] OTHER -> t

\* the token contains ">" (always as its last character)
HasGt(t) == t \in {">", " />", "</a>", "</head>", "</title>", "<title>", "<html>", "<body>"}

\* the token is a quote character
IsQuote(t) == t \in {"\"", "'"}

\* the token starts with a word character [A-Za-z0-9_]
WordStart(t) == t \in {"er", "bbr", "about", "page", "page2", "dir", "moved", "a", "b",
                       "x", "T", "top", "en", "a.test", "b.test", "relay.test"}

----------------------------------------------------------------------------
(* URLs: the WHATWG URL class as the handlers use it *)

SpecialSchemes == {"http:", "https:"}
OtherSchemes == {"mailto:", "javascript:", "file:", "data:", "tel:"}
Hosts == {"a.test", "b.test", "relay.test"}

\* the value a failed parse stands for (new URL throws TypeError "Invalid URL")
NoURL == [ok |-> FALSE, protocol |-> "", host |-> "", pathname |-> <<>>]

\* a string as tokens: the empty string has none
Str(t) == IF t = "" THEN <<>> ELSE <<t>>

\* new URL(s): http(s) needs "//" and a well-formed host, an absent path
\* becomes "/"; any other scheme keeps the rest as an opaque path, no host
ParseURL(s) ==
    IF s = <<>> THEN NoURL
    ELSE IF Lower(s[1]) \in SpecialSchemes
         THEN IF Len(s) >= 3 /\ s[2] = "//" /\ s[3] \in Hosts
              THEN [ok |-> TRUE, protocol |-> Lower(s[1]), host |-> s[3],
                    pathname |-> IF Len(s) = 3 THEN <<"/">> ELSE SubSeq(s, 4, Len(s))]
              ELSE NoURL
    ELSE IF Lower(s[1]) \in OtherSchemes
         THEN [ok |-> TRUE, protocol |-> Lower(s[1]), host |-> "",
               pathname |-> SubSeq(s, 2, Len(s))]
    ELSE NoURL

\* URL.prototype.toString
Href(u) ==
    IF u.protocol \in SpecialSchemes
    THEN <<u.protocol, "//", u.host>> \o u.pathname
    ELSE <<u.protocol>> \o u.pathname

\* URL.prototype.origin: opaque ("null") unless the scheme is http(s)
OriginOf(u) ==
    IF u.protocol \in SpecialSchemes THEN <<u.protocol, "//", u.host>> ELSE <<"null">>

\* the path up to and including its last "/"
RECURSIVE DirOf(_)
DirOf(p) ==
    IF p = <<>> \/ p[Len(p)] = "/" THEN p ELSE DirOf(SubSeq(p, 1, Len(p) - 1))

\* new URL(href, base)
ResolveURL(href, base) ==
    LET b == ParseURL(base) IN
    IF ~b.ok THEN NoURL
    ELSE IF href = <<>> THEN b
    ELSE IF Lower(href[1]) \in SpecialSchemes \cup OtherSchemes THEN ParseURL(href)
    ELSE IF b.protocol \notin SpecialSchemes THEN NoURL
    ELSE IF href[1] = "//" THEN ParseURL(<<b.protocol>> \o href)
    ELSE IF href[1] = "/" THEN [b EXCEPT !.pathname = href]
    ELSE [b EXCEPT !.pathname = DirOf(b.pathname) \o href]

\* encodeURIComponent on one token: ":" "/" "?" "=" and "%" are escaped,
\* letters, digits and - _ . ! ~ * ' ( ) are kept
EncodeTok(t) ==
    CASE t = "https:" -> "https%3A"
      [] t = "http:" -> "http%3A"
      [] t = "//" -> "%2F%2F"
      [] t = "/" -> "%2F"
      [] t = "/api/fetch-site" -> "%2Fapi%2Ffetch-site"
      [] t = "/fetch-site" -> "%2Ffetch-site"
      [] t = "?url=" -> "%3Furl%3D"
      [] t = "https%3A" -> "https%253A"
      [] t = "http%3A" -> "http%253A"
      [] t = "%2F%2F" -> "%252F%252F"
      [] t = "%2F" -> "%252F"
      [] OTHER -> t

encodeURIComponent(s) == [i \in DOMAIN s |-> EncodeTok(s[i])]

----------------------------------------------------------------------------
(* The HTML rewriter *)

Min(S) == CHOOSE x \in S : \A y \in S : x <= y

\* index of the first token at or after i that contains ">", 0 if none
FirstGt(h, i) ==
    LET S == {j \in i..Len(h) : HasGt(h[j])} IN IF S = {} THEN 0 ELSE Min(S)

\* index of the first quote token at or after i, 0 if none
FirstQuote(h, i) ==
    LET S == {j \in i..Len(h) : IsQuote(h[j])} IN IF S = {} THEN 0 ELSE Min(S)

\* /(<head[^>]*>)/i : the positions where the pattern matches
HeadMatches(h) ==
    {i \in 1..Len(h) : Lower(h[i]) = "<head" /\ FirstGt(h, i + 1) # 0}

\* the replacement text after $1: `\n<base href="${targetOrigin}/" />`
BaseTag(targetOrigin) ==
    <<"\n<base", " href=", "\"">> \o targetOrigin \o <<"/", "\"", " />">>

\* html.replace(/(<head[^>]*>)/i, ...): no g flag, the first match only
InjectBase(html, targetOrigin) ==
    IF HeadMatches(html) = {} THEN html
    ELSE LET e == FirstGt(html, Min(HeadMatches(html)) + 1) IN
         SubSeq(html, 1, e) \o BaseTag(targetOrigin) \o SubSeq(html, e + 1, Len(html))

\* /(<a\b[^>]*?\shref=)(["'])([^"']*)(["'])/ tried at position i: the places
\* j of an " href=" that [^>]*? can reach, that is followed by a quote and
\* has a later quote to close the value
HrefPlaces(h, i) ==
    {j \in (i + 1)..(Len(h) - 2) :
        /\ Lower(h[j]) = " href="
        /\ \A m \in (i + 1)..(j - 1) : ~HasGt(h[m])
        /\ IsQuote(h[j + 1])
        /\ FirstQuote(h, j + 2) # 0}

\* the pattern matches at i: "<a", a word boundary, and a reachable href
AnchorMatchesAt(h, i) ==
    /\ Lower(h[i]) = "<a"
    /\ i < Len(h)
    /\ ~WordStart(h[i + 1])
    /\ HrefPlaces(h, i) # {}

\* the match at i: [^>]*? is lazy (the first href that works), [^"']* runs
\* to the next quote of either kind
AnchorMatch(h, i) ==
    LET j == Min(HrefPlaces(h, i)) IN
    [from |-> i, href |-> j, to |-> FirstQuote(h, j + 2)]

\* the g flag: matches left to right, each search resuming after the last
RECURSIVE AnchorMatchesFrom(_, _)
AnchorMatchesFrom(h, from) ==
    LET S == {i \in from..Len(h) : AnchorMatchesAt(h, i)} IN
    IF S = {} THEN <<>>
    ELSE LET m == AnchorMatch(h, Min(S)) IN <<m>> \o AnchorMatchesFrom(h, m.to + 1)

\* SkipHref with "#" forgotten in the pattern
SkipHrefNoHash(href) == Lower(href[1]) \in {"javascript:", "mailto:", "tel:"}

\* /^(#|javascript:|mailto:|tel:)/i.test(href)
SkipHref(href) == Lower(href[1]) \in {"#", "javascript:", "mailto:", "tel:"}

\* the route written into rewritten links
LinkRoute(binding) ==
    IF binding = "serverless" THEN <<"/api/fetch-site">> ELSE <<"/fetch-site">>

\* proxyBase: `https://${req.headers.host ?? ''}` in the serverless handler,
\* `http://${req.headers.host ?? 'localhost:5174'}` in the dev middleware;
\* an absent Host header is the empty sequence
ProxyBase(binding, host) ==
    IF binding = "serverless" THEN <<"https:", "//">> \o host
    ELSE <<"http:", "//">> \o (IF host = <<>> THEN <<"localhost:5174">> ELSE host)

\* the replace callback: what it returns for the match m of h
RewriteLink(h, m, binding, host, target) ==
    LET match == SubSeq(h, m.from, m.to)
        prefix == SubSeq(h, m.from, m.href)
        q1 == h[m.href + 1]
        href == SubSeq(h, m.href + 2, m.to - 1)
        q2 == h[m.to]
        targetOrigin == <<target.protocol, "//">> \o Str(target.host)
        abs == ResolveURL(href, targetOrigin \o target.pathname)
    IN  IF href = <<>> \/ SkipHref(href) THEN match
        ELSE IF abs.ok /\ OriginOf(abs) = targetOrigin
             THEN prefix \o <<q1>> \o ProxyBase(binding, host) \o LinkRoute(binding)
                  \o <<"?url=">> \o encodeURIComponent(Href(abs)) \o <<q2>>
             ELSE match

\* the callback invocations of html.replace(/.../gi, callback), in order:
\* the matched range and the returned text
LinkCalls(h, binding, host, target) ==
    LET ms == AnchorMatchesFrom(h, 1) IN
    [n \in DOMAIN ms |->
        [from |-> ms[n].from, to |-> ms[n].to,
         result |-> RewriteLink(h, ms[n], binding, host, target)]]

\* String.prototype.replace: the text between matches is copied, each match
\* gives way to the callback's result
RECURSIVE Splice(_, _, _, _)
Splice(h, log, n, pos) ==
    IF n > Len(log) THEN SubSeq(h, pos, Len(h))
    ELSE SubSeq(h, pos, log[n].from - 1) \o log[n].result
         \o Splice(h, log, n + 1, log[n].to + 1)

----------------------------------------------------------------------------
(* Response headers *)

\* BLOCKED_HEADERS without the entry for content-encoding
BlockedWithoutEncoding ==
    {"x-frame-options", "content-security-policy", "content-security-policy-report-only",
     "cross-origin-opener-policy", "cross-origin-embedder-policy", "transfer-encoding"}

BLOCKED_HEADERS ==
    {"x-frame-options", "content-security-policy", "content-security-policy-report-only",
     "cross-origin-opener-policy", "cross-origin-embedder-policy",
     "content-encoding", "transfer-encoding"}

\* a header map with no entry
NoHeaders == [n \in {} |-> <<>>]

\* the values of the lines of w named n (in any letter case), joined by ", "
RECURSIVE Combined(_, _)
Combined(w, n) ==
    IF w = <<>> THEN <<>>
    ELSE LET rest == Combined(Tail(w), n) IN
         IF Lower(Head(w).name) # n THEN rest
         ELSE IF rest = <<>> THEN Head(w).value
         ELSE Head(w).value \o <<", ">> \o rest

\* upstream.headers: the Headers object fetch builds from the header lines
\* received; names are lower-cased and lines of one name are combined
FetchHeaders(wire) ==
    [n \in {Lower(wire[i].name) : i \in DOMAIN wire} |-> Combined(wire, n)]

\* res.setHeader(name, value): Node keys the header by its lower-cased name
SetHeader(hs, name, value) ==
    [n \in DOMAIN hs \cup {Lower(name)} |-> IF n = Lower(name) THEN value ELSE hs[n]]

\* res.removeHeader(name)
RemoveHeader(hs, name) == [n \in DOMAIN hs \ {Lower(name)} |-> hs[n]]

\* obj[key] = value on a plain object: the key is taken as written
SetProperty(obj, key, value) ==
    [n \in DOMAIN obj \cup {key} |-> IF n = key THEN value ELSE obj[n]]

\* delete obj[key]
DeleteProperty(obj, key) == [n \in DOMAIN obj \ {key} |-> obj[n]]

\* upstream.headers.forEach: every header whose lower-cased name is not
\* blocked is copied
ForwardHeaders(h) == [n \in {k \in DOMAIN h : Lower(k) \notin BLOCKED_HEADERS} |-> h[n]]

\* the headers after the forEach and the two forced headers: set on res by
\* the serverless handler, collected in responseHeaders by the dev middleware
FilteredHeaders(binding, h) ==
    IF binding = "serverless"
    THEN SetHeader(SetHeader(ForwardHeaders(h), "x-frame-options", <<"ALLOWALL">>),
                   "access-control-allow-origin", <<"*">>)
    ELSE SetProperty(SetProperty(ForwardHeaders(h), "x-frame-options", <<"ALLOWALL">>),
                     "access-control-allow-origin", <<"*">>)

\* the token contains the characters text/html
HasTextHtml(t) == t \in {"text/html", "text/html; charset=utf-8", "text/html; charset=iso-8859-1"}

\* upstream.headers.get('content-type') ?? ''
ContentType(h) == IF "content-type" \in DOMAIN h THEN h["content-type"] ELSE <<>>

\* IsHtml testing for "text/" alone
IsHtmlLoose(h) ==
    \E i \in DOMAIN ContentType(h) :
        HasTextHtml(ContentType(h)[i]) \/ ContentType(h)[i] = "text/css"

\* contentType.includes('text/html')
IsHtml(h) == \E i \in DOMAIN ContentType(h) : HasTextHtml(ContentType(h)[i])

\* the headers object of the plain-text replies of the dev middleware
TextPlain == SetProperty(NoHeaders, "Content-Type", <<"text/plain">>)

----------------------------------------------------------------------------
(* The handler, one call: what it holds at each suspension point *)

\* no upstream response yet
NoUpstream == [status |-> 0, wire |-> <<>>, url |-> <<>>, body |-> <<>>, error |-> <<>>]

\* nothing written to the client yet
NoResponse == [status |-> 0, headers |-> NoHeaders, body |-> <<>>]

\* a call slot before its request arrives
IdleCall ==
    [pc |-> "idle", binding |-> "none", query |-> <<>>, host |-> <<>>,
     target |-> NoURL, fetches |-> 0, upstream |-> NoUpstream,
     resHeaders |-> NoHeaders, responseHeaders |-> NoHeaders,
     htmlIn |-> <<>>, htmlBase |-> <<>>, log |-> <<>>,
     sent |-> 0, out |-> NoResponse,
     log2 |-> <<>>, html2 |-> <<>>]

\* the status line, headers and body written to the client
Respond(c, status, headers, body) ==
    [c EXCEPT !.pc = "done", !.sent = @ + 1,
              !.out = [status |-> status, headers |-> headers, body |-> body]]

\* res.status(status).send(body): goes out with the headers set on res so far
Send(c, status, body) == Respond(c, status, c.resHeaders, body)

\* res.writeHead(status, headers); res.end(body)
WriteHeadEnd(c, status, headers, body) == Respond(c, status, headers, body)

\* the catch block around the fetch and all that follows it
ProxyError(c, message) ==
    IF c.binding = "serverless"
    THEN Send(c, 502, <<"Proxy error: ">> \o message)
    ELSE WriteHeadEnd(c, 502, TextPlain, <<"Proxy error: ">> \o message)

\* the url query parameter: the first value when it is given more than once,
\* the empty string standing also for an absent parameter
RawUrl(query) == IF query = <<>> THEN <<>> ELSE query[1]

\* the handler from its entry to the fetch call
OnRequest(c0, binding, query, host) ==
    LET c == [c0 EXCEPT !.binding = binding, !.query = query, !.host = host]
        rawUrl == RawUrl(query)
        target == ParseURL(rawUrl)
    IN  IF rawUrl = <<>>
        THEN IF binding = "serverless"
             THEN Send(c, 400, <<"Missing ?url= parameter">>)
             ELSE WriteHeadEnd(c, 400, TextPlain, <<"Missing ?url= parameter">>)
        ELSE IF ~target.ok
        THEN IF binding = "serverless"
             THEN Send(c, 400, <<"Invalid URL">>)
             ELSE ProxyError(c, <<"Invalid URL">>)
        ELSE [c EXCEPT !.pc = "fetching", !.target = target, !.fetches = @ + 1]

\* OnFetchRejected trying the fetch a second time before giving up
OnFetchRejectedRetry(c, message) ==
    IF c.fetches < 2 THEN [c EXCEPT !.fetches = @ + 1]
    ELSE ProxyError([c EXCEPT !.upstream.error = message], message)

\* the fetch promise rejects
OnFetchRejected(c, message) ==
    ProxyError([c EXCEPT !.upstream.error = message], message)

\* the fetch promise resolves: headers are filtered, then the body is awaited
OnFetchResolved(c, status, wire, url) ==
    LET hs == FilteredHeaders(c.binding, FetchHeaders(wire)) IN
    [c EXCEPT !.pc = "reading",
              !.upstream = [status |-> status, wire |-> wire, url |-> url,
                            body |-> <<>>, error |-> <<>>],
              !.resHeaders = IF c.binding = "serverless" THEN hs ELSE @,
              !.responseHeaders = IF c.binding = "serverless" THEN @ ELSE hs]

\* upstream.text() or upstream.arrayBuffer() resolves: rewrite and reply
OnBodyRead(c0, body) ==
    LET c == [c0 EXCEPT !.upstream.body = body]
        targetOrigin == <<c.target.protocol, "//">> \o Str(c.target.host)
        htmlBase == InjectBase(body, targetOrigin)
        log == LinkCalls(htmlBase, c.binding, c.host, c.target)
        html == Splice(htmlBase, log, 1, 1)
        r == [c EXCEPT !.htmlIn = body, !.htmlBase = htmlBase, !.log = log]
    IN  IF IsHtml(FetchHeaders(c.upstream.wire))
        THEN IF c.binding = "serverless"
             THEN Send([r EXCEPT !.resHeaders =
                           RemoveHeader(SetHeader(@, "content-type",
                                                  <<"text/html; charset=utf-8">>),
                                        "content-length")],
                       c.upstream.status, html)
             ELSE WriteHeadEnd(r, c.upstream.status,
                       DeleteProperty(SetProperty(c.responseHeaders, "content-type",
                                                  <<"text/html; charset=utf-8">>),
                                      "content-length"),
                       html)
        ELSE IF c.binding = "serverless"
             THEN Send(c, c.upstream.status, body)
             ELSE WriteHeadEnd(c, c.upstream.status,
                       SetProperty(c.responseHeaders, "content-length",
                                   <<ToString(Len(body))>>),
                       body)

\* reading the upstream body fails
OnBodyFailed(c, message) ==
    ProxyError([c EXCEPT !.upstream.error = message], message)

\* the link rewrite run once more, on the body the call emitted, with the
\* same target and relay base
OnRewriteAgain(c) ==
    LET log2 == LinkCalls(c.out.body, c.binding, c.host, c.target) IN
    [c EXCEPT !.pc = "again", !.log2 = log2,
              !.html2 = Splice(c.out.body, log2, 1, 1)]

----------------------------------------------------------------------------
(* Inputs *)

Bindings == {"serverless", "dev"}

UrlPage == <<"https:", "//", "a.test", "/", "dir", "/", "page">>
UrlRoot == <<"https:", "//", "a.test">>
UrlOther == <<"http:", "//", "b.test", "/", "page">>

\* values that parse and name a page on the network
NetworkUrls == {UrlPage, UrlRoot, UrlOther}

\* values that parse but name nothing a relay can fetch over the network
NonNetworkUrls ==
    {<<"mailto:", "x">>, <<"javascript:", "x">>, <<"file:", "/", "x">>, <<"data:", "x">>}

\* values that do not parse
BadUrls == {<<"not a url">>, <<"/", "page">>, <<"https:", "//", "[">>}

\* the url query parameter as received: absent, empty, one value, two values
Queries ==
    {<<>>, << <<>> >>, <<UrlPage, UrlOther>>}
    \cup {<<u>> : u \in NetworkUrls \cup NonNetworkUrls \cup BadUrls}

\* the Host request header: absent or present
HostHeaders == {<<>>, <<"relay.test">>}

\* Host headers of a relay on a host of its own and of one that shares the
\* host of the page it relays
RelayHosts == {<<"relay.test">>, <<"a.test">>}

FetchErrors == {<<"fetch failed">>}
BodyErrors == {<<"terminated">>}
Statuses == {200, 404}

\* where redirects may end: at the requested URL or on another origin
FinalUrls(target) == {Href(target), <<"https:", "//", "b.test", "/", "moved">>}

HeaderPool ==
    << [name |-> "Content-Type", value |-> <<"text/html">>],
       [name |-> "content-type", value |-> <<"text/css">>],
       [name |-> "X-Frame-Options", value |-> <<"DENY">>],
       [name |-> "Content-Security-Policy", value |-> <<"frame-ancestors 'none'">>],
       [name |-> "Content-Security-Policy-Report-Only", value |-> <<"default-src 'self'">>],
       [name |-> "Cross-Origin-Opener-Policy", value |-> <<"same-origin">>],
       [name |-> "cross-origin-embedder-policy", value |-> <<"require-corp">>],
       [name |-> "Content-Encoding", value |-> <<"gzip">>],
       [name |-> "TRANSFER-ENCODING", value |-> <<"chunked">>],
       [name |-> "Access-Control-Allow-Origin", value |-> <<"https://x.test">>],
       [name |-> "Content-Length", value |-> <<"10">>],
       [name |-> "X-Custom", value |-> <<"v">>],
       [name |-> "x-custom", value |-> <<"w">>] >>

\* the lines of HeaderPool picked by S, in pool order
RECURSIVE Pick(_, _)
Pick(S, i) ==
    IF i > Len(HeaderPool) THEN <<>>
    ELSE (IF i \in S THEN <<HeaderPool[i]>> ELSE <<>>) \o Pick(S, i + 1)

\* the header lines an upstream response may carry
WireHeaders ==
    {Pick(S, 1) : S \in {T \in SUBSET (1..Len(HeaderPool)) : Cardinality(T) <= MaxHeaders}}

HtmlOnly == {<<[name |-> "Content-Type", value |-> <<"text/html">>]>>}

\* a whole page: a head with a title, a body with one same-origin link
ExamplePage ==
    <<"<html>", "<head", ">", "<title>", "T", "</title>", "</head>", "<body>",
      "<a", " href=", "\"", "/", "about", "\"", ">", "About", "</a>">>

Bodies ==
    {<<>>, ExamplePage,
     <<"<head", "er", ">", "<a", " href=", "'", "#", "top", "'", ">">>,
     <<"<HEAD", " id=x", ">", "<A", " HREF=", "\"", "https:", "//", "b.test", "/", "\"", ">">>}

\* requests, upstream headers and upstream bodies of concurrent calls
ConcQueries == {<<>>, <<UrlPage>>, <<UrlOther>>}

ConcWires == {Pick({1, 3}, 1), Pick({2, 12}, 1)}

ConcBodies == {ExamplePage, <<"T">>}

\* markup an upstream document is made of
Segments ==
    {<<"<head", ">">>,
     <<"<HEAD", " id=x", ">">>,
     <<"<head", "er", ">">>,
     <<"T">>,
     <<"<a", " href=", "\"", "/", "about", "\"", ">">>,
     <<"<a", " href=", "'", "page2", "'", ">">>,
     <<"<a", " class=c", " href=", "\"", "https:", "//", "a.test", "/", "dir", "\"", ">">>,
     <<"<a", " href=", "\"", "https:", "//", "b.test", "/", "\"", ">">>,
     <<"<a", " href=", "\"", "https:", "//", "[", "\"", ">">>,
     <<"<A", " HREF=", "\"", "JavaScript:", "f(", "'", "x", "'", ")", "\"", ">">>,
     <<"<a", " href=", "\"", "#", "top", "\"", ">">>,
     <<"<a", " href=", "\"", "\"", ">">>,
     <<"<a", " href=", "'", "MAILTO:", "x", "'", ">">>,
     <<"<a", " href=", "'", "tel:", "x", "'", ">">>,
     <<"<a", "bbr", " href=", "\"", "/", "about", "\"", ">">>,
     <<"<a", " href=", "\"", "/", "a", "'", "b", "\"", ">">>}

RECURSIVE DocsOf(_)
DocsOf(n) ==
    IF n = 0 THEN {<<>>}
    ELSE {<<>>} \cup {s \o d : s \in Segments, d \in DocsOf(n - 1)}

Docs == DocsOf(MaxSegs)

----------------------------------------------------------------------------
(* Actions *)

Receive(c, binding, query, host) ==
    /\ calls[c].pc = "idle"
    /\ calls' = [calls EXCEPT ![c] = OnRequest(@, binding, query, host)]

FetchRejected(c, message) ==
    /\ calls[c].pc = "fetching"
    /\ calls' = [calls EXCEPT ![c] = OnFetchRejected(@, message)]

\* only an http(s) fetch is given a response here
FetchResolved(c, status, wire, url) ==
    /\ calls[c].pc = "fetching"
    /\ calls[c].target.protocol \in SpecialSchemes
    /\ url \in FinalUrls(calls[c].target)
    /\ calls' = [calls EXCEPT ![c] = OnFetchResolved(@, status, wire, url)]

\* BodyRead with the upstream response kept in one variable shared by all
\* calls: the reply is built from whichever response was stored last
BodyReadShared(c, body) ==
    /\ calls[c].pc = "reading"
    /\ \E d \in Calls :
          /\ calls[d].pc = "reading"
          /\ calls' = [calls EXCEPT ![c] =
                 [OnBodyRead([@ EXCEPT !.upstream = calls[d].upstream], body)
                     EXCEPT !.upstream = [calls[c].upstream EXCEPT !.body = body]]]

BodyRead(c, body) ==
    /\ calls[c].pc = "reading"
    /\ calls' = [calls EXCEPT ![c] = OnBodyRead(@, body)]

BodyFailed(c, message) ==
    /\ calls[c].pc = "reading"
    /\ calls' = [calls EXCEPT ![c] = OnBodyFailed(@, message)]

\* the link rewrite applied to its own output
RewriteAgain(c) ==
    /\ calls[c].pc = "done"
    /\ calls[c].log # <<>>
    /\ calls' = [calls EXCEPT ![c] = OnRewriteAgain(@)]

\* one request handed to both bindings, and the same upstream answer given to
\* both: slot 1 is the serverless handler, slot 2 the dev middleware
ReceiveBoth(query, host) ==
    /\ calls[1].pc = "idle" /\ calls[2].pc = "idle"
    /\ calls' = [calls EXCEPT ![1] = OnRequest(@, "serverless", query, host),
                              ![2] = OnRequest(@, "dev", query, host)]

FetchRejectedBoth(message) ==
    /\ calls[1].pc = "fetching" /\ calls[2].pc = "fetching"
    /\ calls' = [calls EXCEPT ![1] = OnFetchRejected(@, message),
                              ![2] = OnFetchRejected(@, message)]

FetchResolvedBoth(status, wire, url) ==
    /\ calls[1].pc = "fetching" /\ calls[2].pc = "fetching"
    /\ calls[1].target.protocol \in SpecialSchemes
    /\ url \in FinalUrls(calls[1].target)
    /\ calls' = [calls EXCEPT ![1] = OnFetchResolved(@, status, wire, url),
                              ![2] = OnFetchResolved(@, status, wire, url)]

BodyReadBoth(body) ==
    /\ calls[1].pc = "reading" /\ calls[2].pc = "reading"
    /\ calls' = [calls EXCEPT ![1] = OnBodyRead(@, body), ![2] = OnBodyRead(@, body)]

BodyFailedBoth(message) ==
    /\ calls[1].pc = "reading" /\ calls[2].pc = "reading"
    /\ calls' = [calls EXCEPT ![1] = OnBodyFailed(@, message),
                              ![2] = OnBodyFailed(@, message)]

Init == calls = [c \in Calls |-> IdleCall]

\* one call, any request, any upstream answer
Next ==
    \/ \E b \in Bindings, q \in Queries, h \in HostHeaders : Receive(1, b, q, h)
    \/ \E m \in FetchErrors : FetchRejected(1, m)
    \/ \E s \in Statuses, w \in WireHeaders, u \in FinalUrls(calls[1].target) :
          FetchResolved(1, s, w, u)
    \/ \E d \in Bodies : BodyRead(1, d)
    \/ \E m \in BodyErrors : BodyFailed(1, m)

Spec == Init /\ [][Next]_vars

\* one call for an HTML page, any document
NextRewrite ==
    \/ \E b \in Bindings, u \in NetworkUrls, h \in HostHeaders : Receive(1, b, <<u>>, h)
    \/ \E m \in FetchErrors : FetchRejected(1, m)
    \/ \E w \in HtmlOnly : FetchResolved(1, 200, w, Href(calls[1].target))
    \/ \E d \in Docs : BodyRead(1, d)
    \/ \E m \in BodyErrors : BodyFailed(1, m)

SpecRewrite == Init /\ [][NextRewrite]_vars

\* one call for an HTML page, and the link rewrite run again on what it emitted
NextTwice ==
    \/ \E b \in Bindings, u \in NetworkUrls, h \in RelayHosts : Receive(1, b, <<u>>, h)
    \/ \E m \in FetchErrors : FetchRejected(1, m)
    \/ \E w \in HtmlOnly : FetchResolved(1, 200, w, Href(calls[1].target))
    \/ \E d \in Docs : BodyRead(1, d)
    \/ \E m \in BodyErrors : BodyFailed(1, m)
    \/ RewriteAgain(1)

SpecTwice == Init /\ [][NextTwice]_vars

\* the two bindings side by side on the same request and upstream answer
NextPair ==
    \/ \E q \in Queries, h \in HostHeaders : ReceiveBoth(q, h)
    \/ \E m \in FetchErrors : FetchRejectedBoth(m)
    \/ \E s \in Statuses, w \in WireHeaders, u \in FinalUrls(calls[1].target) :
          FetchResolvedBoth(s, w, u)
    \/ \E d \in Bodies : BodyReadBoth(d)
    \/ \E m \in BodyErrors : BodyFailedBoth(m)

SpecPair == Init /\ [][NextPair]_vars

\* every call slot in flight at once, the steps of different calls
\* interleaved at the two awaits (fetch, body read)
NextConc ==
    \E c \in Calls :
        \/ \E b \in Bindings, q \in ConcQueries : Receive(c, b, q, <<"relay.test">>)
        \/ \E m \in FetchErrors : FetchRejected(c, m)
        \/ \E w \in ConcWires : FetchResolved(c, 200, w, Href(calls[c].target))
        \/ \E d \in ConcBodies : BodyRead(c, d)
        \/ \E m \in BodyErrors : BodyFailed(c, m)

SpecConc == Init /\ [][NextConc]_vars

----------------------------------------------------------------------------
(* Vocabulary of the properties *)

\* the call has replied
Done(c) == calls[c].pc = "done"

\* the fetch itself failed: no upstream response was ever received
FetchFailed(c) == calls[c].upstream.error # <<>> /\ calls[c].upstream.status = 0

\* the call replied from a fully received upstream response
Relayed(c) ==
    Done(c) /\ calls[c].upstream.status # 0 /\ calls[c].upstream.error = <<>>

\* some content-type line of the upstream response contains text/html
UpstreamIsHtml(c) ==
    \E i \in DOMAIN calls[c].upstream.wire :
        /\ Lower(calls[c].upstream.wire[i].name) = "content-type"
        /\ \E k \in DOMAIN calls[c].upstream.wire[i].value :
              HasTextHtml(calls[c].upstream.wire[i].value[k])

\* the seven header names the relay must never forward
SevenBlocked ==
    {"x-frame-options", "content-security-policy", "content-security-policy-report-only",
     "cross-origin-opener-policy", "cross-origin-embedder-policy",
     "content-encoding", "transfer-encoding"}

\* the emitted headers whose name is n in some letter case
Emitted(c, n) == {k \in DOMAIN calls[c].out.headers : Lower(k) = n}

\* the emitted response carries n exactly once, under that name, with value v
EmittedOnce(c, n, v) == Emitted(c, n) = {n} /\ calls[c].out.headers[n] = v

\* the upstream header names, lower-cased
UpstreamNames(c) ==
    {Lower(calls[c].upstream.wire[i].name) : i \in DOMAIN calls[c].upstream.wire}

\* the upstream header n is forwarded with its value unchanged
Forwarded(c, n) == EmittedOnce(c, n, Combined(calls[c].upstream.wire, n))

----------------------------------------------------------------------------
(* C1 *)

\* C1: in both bindings an absent or empty url is answered 400 "Missing ?url=
\* parameter", an unparseable url is answered 400 "Invalid URL", and no fetch
\* is issued in either case.
C1_BadRequestsAnswered400 ==
    \A c \in Calls : Done(c) =>
        /\ RawUrl(calls[c].query) = <<>> =>
              /\ calls[c].out.status = 400
              /\ calls[c].out.body = <<"Missing ?url= parameter">>
              /\ calls[c].fetches = 0
        /\ RawUrl(calls[c].query) \in BadUrls =>
              /\ calls[c].out.status = 400
              /\ calls[c].out.body = <<"Invalid URL">>
              /\ calls[c].fetches = 0

(* C2 *)

\* C2: a url that parses but has no network scheme (mailto:, javascript:,
\* file:, data:) is answered 400 "Invalid URL" and no fetch is attempted.
C2_NonNetworkSchemeRejected ==
    \A c \in Calls : RawUrl(calls[c].query) \in NonNetworkUrls =>
        /\ calls[c].fetches = 0
        /\ Done(c) => /\ calls[c].out.status = 400
                      /\ calls[c].out.body = <<"Invalid URL">>

(* C3 *)

\* C3: with a valid target, a fetch that fails is answered 502 with body
\* "Proxy error: " followed by the failure message, after exactly one fetch:
\* a failed fetch is never retried.
C3_FetchFailureIs502 ==
    \A c \in Calls : calls[c].target.ok /\ FetchFailed(c) =>
        /\ Done(c)
        /\ calls[c].out.status = 502
        /\ calls[c].out.body = <<"Proxy error: ">> \o calls[c].upstream.error
        /\ calls[c].fetches = 1
        /\ calls[c].sent = 1

C3_Witness ==
    \E c \in Calls :
        /\ Done(c) /\ FetchFailed(c)
        /\ calls[c].target = ParseURL(UrlPage)
        /\ calls[c].out.body = <<"Proxy error: ", "fetch failed">>

(* C4 *)

\* C4 as stated: in a relayed response no blocked header carries an upstream
\* value, x-frame-options is ALLOWALL and access-control-allow-origin is *,
\* each once, and every other upstream header is forwarded unchanged.
C4_HeadersAsStated ==
    \A c \in Calls : Relayed(c) =>
        /\ \A n \in SevenBlocked \ {"x-frame-options"} : Emitted(c, n) = {}
        /\ EmittedOnce(c, "x-frame-options", <<"ALLOWALL">>)
        /\ EmittedOnce(c, "access-control-allow-origin", <<"*">>)
        /\ \A n \in UpstreamNames(c) \ (SevenBlocked \cup {"access-control-allow-origin"}) :
              Forwarded(c, n)

\* C4 amended: as C4, except that content-type and content-length are not
\* always forwarded: on an HTML response content-type is replaced by
\* "text/html; charset=utf-8" and content-length is dropped, and on a non-HTML
\* response of the dev middleware content-length is set to the body's length.
C4_HeadersFiltered ==
    \A c \in Calls : Relayed(c) =>
        /\ \A n \in SevenBlocked \ {"x-frame-options"} : Emitted(c, n) = {}
        /\ EmittedOnce(c, "x-frame-options", <<"ALLOWALL">>)
        /\ EmittedOnce(c, "access-control-allow-origin", <<"*">>)
        /\ \A n \in UpstreamNames(c) \ (SevenBlocked \cup {"access-control-allow-origin"}) :
              IF UpstreamIsHtml(c) /\ n = "content-type"
              THEN EmittedOnce(c, n, <<"text/html; charset=utf-8">>)
              ELSE IF UpstreamIsHtml(c) /\ n = "content-length"
              THEN Emitted(c, n) = {}
              ELSE IF calls[c].binding = "dev" /\ n = "content-length"
              THEN EmittedOnce(c, n, <<ToString(Len(calls[c].upstream.body))>>)
              ELSE Forwarded(c, n)

C4_Witness ==
    \E c \in Calls :
        /\ Relayed(c)
        /\ {"content-encoding", "x-custom"} \subseteq UpstreamNames(c)
        /\ calls[c].out.headers["x-custom"] = <<"v">>
        /\ DOMAIN calls[c].out.headers =
              {"x-custom", "x-frame-options", "access-control-allow-origin"}

(* C5 *)

\* C5: when redirects end on another origin than the requested one, the base
\* tag and the same-origin test of the link rewrite use the final URL.
C5_RewriteUsesFinalUrl ==
    \A c \in Calls :
        (/\ Relayed(c) /\ UpstreamIsHtml(c)
         /\ OriginOf(ParseURL(calls[c].upstream.url)) # OriginOf(calls[c].target)) =>
            /\ calls[c].htmlBase =
                  InjectBase(calls[c].htmlIn, OriginOf(ParseURL(calls[c].upstream.url)))
            /\ calls[c].log = LinkCalls(calls[c].htmlBase, calls[c].binding, calls[c].host,
                                        ParseURL(calls[c].upstream.url))

(* Vocabulary of the markup properties: tags as an HTML reader sees them *)

\* the call replied with a rewritten HTML document
Rewritten(c) == Relayed(c) /\ UpstreamIsHtml(c)

\* scheme and host of the requested target
UpstreamOrigin(c) == <<calls[c].target.protocol, "//", calls[c].target.host>>

\* the positions of the <head ...> opening tags of h: the name head in any
\* letter case, ended by a non-word character, and closed by ">"
HeadTags(h) ==
    {i \in 1..(Len(h) - 1) :
        Lower(h[i]) = "<head" /\ ~WordStart(h[i + 1]) /\ FirstGt(h, i + 1) # 0}

\* the number of injected base elements in h
RECURSIVE BaseCount(_)
BaseCount(h) ==
    IF h = <<>> THEN 0
    ELSE (IF Head(h) = "\n<base" THEN 1 ELSE 0) + BaseCount(Tail(h))

\* the href attribute of the tag opening at i: the first " href=" before the
\* tag's ">", 0 if the tag has none
HrefAttr(h, i) ==
    LET S == {j \in (i + 1)..Len(h) :
                 Lower(h[j]) = " href=" /\ \A m \in (i + 1)..(j - 1) : ~HasGt(h[m])}
    IN  IF S = {} THEN 0 ELSE Min(S)

\* the closing quote of the value opened by the quote at q: the next quote of
\* the same kind, 0 if none
ClosingQuote(h, q) ==
    LET S == {k \in (q + 1)..Len(h) : h[k] = h[q]} IN IF S = {} THEN 0 ELSE Min(S)

\* the positions of the anchors of h that have a quoted href
Anchors(h) ==
    {i \in 1..(Len(h) - 1) :
        /\ Lower(h[i]) = "<a" /\ ~WordStart(h[i + 1])
        /\ HrefAttr(h, i) # 0 /\ HrefAttr(h, i) < Len(h)
        /\ IsQuote(h[HrefAttr(h, i) + 1])
        /\ ClosingQuote(h, HrefAttr(h, i) + 1) # 0}

\* the href value of the anchor at i, and the places of its two quotes
OpenQuote(h, i) == HrefAttr(h, i) + 1
CloseQuote(h, i) == ClosingQuote(h, OpenQuote(h, i))
HrefValue(h, i) == SubSeq(h, OpenQuote(h, i) + 1, CloseQuote(h, i) - 1)

\* the last token of the anchor tag at i
TagEnd(h, i) ==
    IF FirstGt(h, CloseQuote(h, i)) = 0 THEN Len(h) ELSE FirstGt(h, CloseQuote(h, i))

\* the href is one the rewrite must leave alone
LeftAlone(v) == v = <<>> \/ Lower(v[1]) \in {"#", "javascript:", "mailto:", "tel:"}

\* decodeURIComponent
DecodeTok(t) ==
    CASE t = "https%3A" -> "https:"
      [] t = "http%3A" -> "http:"
      [] t = "%2F%2F" -> "//"
      [] t = "%2F" -> "/"
      [] t = "%2Fapi%2Ffetch-site" -> "/api/fetch-site"
      [] t = "%2Ffetch-site" -> "/fetch-site"
      [] t = "%3Furl%3D" -> "?url="
      [] t = "https%253A" -> "https%3A"
      [] t = "http%253A" -> "http%3A"
      [] t = "%252F%252F" -> "%2F%2F"
      [] t = "%252F" -> "%2F"
      [] OTHER -> t

decodeURIComponent(s) == [i \in DOMAIN s |-> DecodeTok(s[i])]

\* the path at which each binding's relay is mounted
ServerlessMountRoute == <<"/api/fetch-site">>
DevMountRoute == <<"/api/fetch-site">>
MountRoute(binding) ==
    IF binding = "serverless" THEN ServerlessMountRoute ELSE DevMountRoute

\* the relay's own base URL as each binding builds it
RelayBase(c) == ProxyBase(calls[c].binding, calls[c].host)

\* the replacement made at the anchor at i of the document the link rewrite
\* ran on: the callback result for the match starting there, or the tag's
\* own text if nothing matched there
Replaced(c, i) ==
    LET S == {n \in DOMAIN calls[c].log : calls[c].log[n].from = i} IN
    IF S = {} THEN [to |-> 0, result |-> <<>>]
    ELSE [to |-> calls[c].log[Min(S)].to, result |-> calls[c].log[Min(S)].result]

----------------------------------------------------------------------------
(* C6 *)

\* C6: an HTML body with a <head ...> opening tag is emitted with exactly one
\* injected base element, placed directly after the first such tag.
C6_BaseAfterFirstHead ==
    \A c \in Calls : (Rewritten(c) /\ HeadTags(calls[c].htmlIn) # {}) =>
        LET h == calls[c].htmlIn
            e == FirstGt(h, Min(HeadTags(h)) + 1)
        IN  /\ calls[c].htmlBase =
                  SubSeq(h, 1, e) \o BaseTag(UpstreamOrigin(c)) \o SubSeq(h, e + 1, Len(h))
            /\ BaseCount(calls[c].out.body) = 1

(* C7 *)

\* C7: an HTML body with no <head> element is emitted with no base tag, also
\* when it has other elements whose name begins with head, such as <header>.
C7_NoHeadNoBase ==
    \A c \in Calls : (Rewritten(c) /\ HeadTags(calls[c].htmlIn) = {}) =>
        BaseCount(calls[c].out.body) = 0

(* C8 *)

\* C8: an anchor whose href resolves to the upstream origin is emitted with
\* href {relay-base}{route}?url={encoded resolved URL}, the route being the
\* path the binding's relay is mounted at, and decoding the url parameter
\* gives back the resolved URL; an anchor whose href resolves to another
\* origin is emitted byte-identical.
C8_SameOriginLinksReenterRelay ==
    \A c \in Calls : Rewritten(c) =>
        \A i \in Anchors(calls[c].htmlBase) :
            LET h == calls[c].htmlBase
                v == HrefValue(h, i)
                abs == ResolveURL(v, UpstreamOrigin(c) \o calls[c].target.pathname)
                enc == encodeURIComponent(Href(abs))
                r == Replaced(c, i)
            IN  (~LeftAlone(v) /\ abs.ok) =>
                    IF OriginOf(abs) = UpstreamOrigin(c)
                    THEN /\ r.to = CloseQuote(h, i)
                         /\ r.result = SubSeq(h, i, OpenQuote(h, i)) \o RelayBase(c)
                                \o MountRoute(calls[c].binding) \o <<"?url=">> \o enc
                                \o <<h[CloseQuote(h, i)]>>
                         /\ decodeURIComponent(enc) = Href(abs)
                    ELSE r.to # 0 => r.result = SubSeq(h, i, r.to)

(* C9 *)

\* C9: an anchor whose href is empty or begins, in any letter case, with #,
\* javascript:, mailto: or tel: is byte-identical after the rewrite, also
\* when the href value contains the other kind of quote: every replacement
\* that touches the tag puts back the text it matched.
C9_SkippedAnchorsUntouched ==
    \A c \in Calls : Rewritten(c) =>
        \A i \in Anchors(calls[c].htmlBase) :
            LeftAlone(HrefValue(calls[c].htmlBase, i)) =>
                \A n \in DOMAIN calls[c].log :
                    (/\ calls[c].log[n].from <= TagEnd(calls[c].htmlBase, i)
                     /\ calls[c].log[n].to >= i) =>
                        calls[c].log[n].result =
                            SubSeq(calls[c].htmlBase, calls[c].log[n].from, calls[c].log[n].to)

C9_Witness ==
    \E c \in Calls :
        /\ Rewritten(c)
        /\ calls[c].htmlIn =
              <<"<A", " HREF=", "\"", "JavaScript:", "f(", "'", "x", "'", ")", "\"", ">",
                "<a", " href=", "\"", "#", "top", "\"", ">">>
        /\ Len(calls[c].log) = 2
        /\ calls[c].out.body = calls[c].htmlIn

(* C10 *)

\* C10: an upstream response whose content-type does not contain text/html
\* is emitted with the upstream status, a byte-identical body and its
\* content-type as upstream sent it.
C10_NonHtmlPassesThrough ==
    \A c \in Calls : (Relayed(c) /\ ~UpstreamIsHtml(c)) =>
        /\ calls[c].out.status = calls[c].upstream.status
        /\ calls[c].out.body = calls[c].upstream.body
        /\ IF "content-type" \in UpstreamNames(c)
           THEN Forwarded(c, "content-type")
           ELSE Emitted(c, "content-type") = {}

C10_Witness ==
    \E c \in Calls :
        /\ Relayed(c)
        /\ calls[c].upstream.status = 404
        /\ "content-type" \in DOMAIN calls[c].out.headers
        /\ calls[c].out.headers["content-type"] = <<"text/css">>
        /\ calls[c].out.body = ExamplePage

(* C11 *)

\* where the n-th replacement of the first run begins in the emitted body
RECURSIVE OutPos(_, _)
OutPos(log, n) ==
    IF n = 1 THEN log[1].from
    ELSE OutPos(log, n - 1) + Len(log[n - 1].result)
         + (log[n].from - log[n - 1].to - 1)

\* the n-th replacement of the first run put a relay link in place of the href
MadeRelayLink(c, n) ==
    calls[c].log[n].result #
        SubSeq(calls[c].htmlBase, calls[c].log[n].from, calls[c].log[n].to)

\* C11: running the link rewrite again on its own output, with the same
\* upstream origin and relay base, leaves every href the first run rewrote
\* unchanged, also when the relay's own host is the upstream origin: every
\* replacement of the second run that touches such a link puts back the text
\* it matched.
C11_RewriteIsIdempotent ==
    \A c \in Calls : calls[c].pc = "again" =>
        \A n \in DOMAIN calls[c].log : MadeRelayLink(c, n) =>
            \A m \in DOMAIN calls[c].log2 :
                (/\ calls[c].log2[m].from <=
                        OutPos(calls[c].log, n) + Len(calls[c].log[n].result) - 1
                 /\ calls[c].log2[m].to >= OutPos(calls[c].log, n)) =>
                    calls[c].log2[m].result =
                        SubSeq(calls[c].out.body, calls[c].log2[m].from, calls[c].log2[m].to)

(* C12 *)

\* the emitted headers as a set of lower-cased names with their values
HeaderSet(c) ==
    {<<Lower(k), calls[c].out.headers[k]>> : k \in DOMAIN calls[c].out.headers}

\* the part of a rewritten href that follows the relay base URL and route
RECURSIVE LinkTail(_)
LinkTail(r) ==
    IF r = <<>> \/ Head(r) = "?url=" THEN r ELSE LinkTail(Tail(r))

\* the two rewritten documents differ at most in the relay base URL and
\* route inside rewritten hrefs
SameRewrite(c, d) ==
    /\ calls[c].htmlBase = calls[d].htmlBase
    /\ Len(calls[c].log) = Len(calls[d].log)
    /\ \A n \in DOMAIN calls[c].log :
          /\ calls[c].log[n].from = calls[d].log[n].from
          /\ calls[c].log[n].to = calls[d].log[n].to
          /\ MadeRelayLink(c, n) = MadeRelayLink(d, n)
          /\ LinkTail(calls[c].log[n].result) = LinkTail(calls[d].log[n].result)

\* C12: given the same request and the same upstream outcome, the serverless
\* handler and the dev middleware emit the same status, the same headers and
\* the same body, but for the relay base URL and route in rewritten hrefs.
C12_BindingsAgree ==
    (Done(1) /\ Done(2)) =>
        /\ calls[1].out.status = calls[2].out.status
        /\ HeaderSet(1) = HeaderSet(2)
        /\ IF Rewritten(1) /\ Rewritten(2)
           THEN SameRewrite(1, 2)
           ELSE calls[1].out.body = calls[2].out.body

(* C13 *)

\* what the handler makes, run alone, of the request and the upstream
\* outcome recorded in r
Solo(r) ==
    LET a == OnRequest(IdleCall, r.binding, r.query, r.host)
        b == OnFetchResolved(a, r.upstream.status, r.upstream.wire, r.upstream.url)
    IN  CASE r.pc = "idle" -> IdleCall
          [] r.pc = "fetching" -> a
          [] r.pc = "reading" -> b
          [] OTHER ->
               IF a.pc = "done" THEN a
               ELSE IF r.upstream.status = 0
               THEN OnFetchRejected(a, r.upstream.error)
               ELSE IF r.upstream.error # <<>>
               THEN OnBodyFailed(b, r.upstream.error)
               ELSE OnBodyRead(b, r.upstream.body)

\* C13: with calls interleaved at their awaits, every call issues at most one
\* fetch, has emitted nothing while its fetch or body read is pending, has
\* emitted exactly one response once it is over, and its whole state, the
\* emitted status, headers and body included, is what the handler run alone
\* makes of that call's own request and own upstream outcome.
C13_CallsAreIndependent ==
    \A c \in Calls :
        /\ calls[c].fetches <= 1
        /\ calls[c].sent = IF Done(c) THEN 1 ELSE 0
        /\ ~Done(c) => calls[c].out = NoResponse
        /\ Relayed(c) => calls[c].fetches = 1
        /\ calls[c] = Solo(calls[c])

\* one call has relayed its upstream response while another, for another
\* target and with other upstream headers, is still reading its body
C13_Witness ==
    \E c, d \in Calls :
        /\ c # d
        /\ Relayed(c) /\ calls[c].out.body # <<>>
        /\ calls[d].pc = "reading"
        /\ calls[d].target # calls[c].target
        /\ calls[d].upstream.wire # calls[c].upstream.wire

(* C14 *)

\* C14: every 502 error reply is plain text and carries none of the headers
\* received from upstream: a content-type it carries is text/plain, and no
\* header of the upstream response is in it with the upstream value, also
\* when the failure comes after the upstream headers were received and
\* filtered.
C14_ErrorReplyCarriesNoUpstreamHeader ==
    \A c \in Calls :
        (Done(c) /\ ~Relayed(c) /\ calls[c].out.status = 502) =>
            /\ \A k \in Emitted(c, "content-type") :
                  calls[c].out.headers[k] = <<"text/plain">>
            /\ \A n \in UpstreamNames(c) : \A k \in Emitted(c, n) :
                  calls[c].out.headers[k] # Combined(calls[c].upstream.wire, n)

====
